---- MODULE Spec2Model ----
(***************************************************************************)
(* databricksLogger (src/databricksLogger.py): the template-driven         *)
(* formatting engine and the caching / persistence state machine.          *)
(*                                                                         *)
(* Strings are sequences of string tokens, so that concatenation is \o     *)
(* and the empty string is << >>.  A template is a sequence of literal     *)
(* and replacement-field tokens.  Every public method is one action; the   *)
(* variables call, raised, printed, external and clock_reads record what   *)
(* the most recent call was, how it ended and what it did to the outside.  *)
(***************************************************************************)
EXTENDS Integers, Sequences, FiniteSets, TLC

VARIABLES
    args,                   \* the arguments __init__ was called with
    constructed,            \* "ok", or the error __init__ raised
    envr,                   \* self.envr
    config,                 \* self.config (a template)
    custom_config_values,   \* self.custom_config_values
    caching,                \* self.caching
    cached_logs,            \* self.cached_logs
    job_run_id,             \* self.job_run_id
    uc_table_name,          \* self.uc_table_name
    clock,                  \* the wall clock, in ticks
    call,                   \* the most recent call and its arguments
    raised,                 \* the exception the most recent call raised
    printed,                \* the lines the most recent call printed
    external,               \* the external calls the most recent call made
    clock_reads,            \* the clock readings the most recent call took
    env,                    \* the outside world: the catalog's tables and
                            \* what the job-identifier lookups may answer
    pending,                \* history: the entries cache-requested emits made
                            \* while enabled, since the last successful write
    last_ok                 \* history: the table name and the job identifier of
                            \* the most recent init_caching that succeeded

vars == <<args, constructed, envr, config, custom_config_values, caching,
          cached_logs, job_run_id, uc_table_name, clock, call, raised,
          printed, external, clock_reads, env, pending, last_ok>>

config_vars == <<args, constructed, envr, config, custom_config_values, env>>

----------------------------------------------------------------------------
(* Bounds of the model *)

MaxBuf == 2

(* The clock readings a run goes through *)
Ticks == {0, 1}

----------------------------------------------------------------------------
(* Values *)

Unset == "<unset>"
None == "<None>"
NoError == "none"

Lit(s) == [kind |-> "lit", text |-> s]
Field(n) == [kind |-> "field", text |-> n]

Levels == {"INFO", "WARNING", "ERROR", "CRITICAL", "SUCCESS"}

Messages == {<<"started">>}

(* The world of Spec: one table exists, one does not; the job context
   answers run-1 or raises, the job_id widget holds run-2 or is absent *)
World ==
    [catalog |-> {"main.logs.job_logs"},
     names |-> {"main.logs.job_logs", "catalog.schema.missing"},
     context |-> {"run-1", "raise"},
     widget |-> {"run-2", None}]

(* ANSI colour codes *)
COLORS(level) ==
    CASE level = "WARNING"  -> <<"ESC[33m">>
      [] level = "INFO"     -> << >>
      [] level = "ERROR"    -> <<"ESC[31m">>
      [] level = "SUCCESS"  -> <<"ESC[32m">>
      [] level = "CRITICAL" -> <<"ESC[35m">>
      [] level = "RESET"    -> <<"ESC[0m">>
      [] OTHER              -> << >>

----------------------------------------------------------------------------
(* Construction *)

NoCustomValues == [k \in {} |-> << >>]
ServiceValues == [k \in {"service"} |-> <<"API">>]

(* The defaults of __init__, as str.format reads them *)
DevTemplate ==
    <<Lit("["), Field("timestamp"), Lit("] <"), Field("envr"), Lit("> : "),
      Field("message")>>
DefaultTemplate ==
    <<Lit("["), Field("timestamp"), Lit("] : "), Field("message")>>

(* The config argument: None, or the text of a template.  A text is a
   sequence of pieces: the braces, the names and the runs of other
   characters between them. *)
NoConfig == [given |-> FALSE, text |-> << >>]
Given(text) == [given |-> TRUE, text |-> text]

ServiceText ==
    <<"[", "{", "timestamp", "}", "][", "{", "service", "}", "] ",
      "{", "message", "}">>
CustomOnlyText == <<"<", "{", "service", "}", ">">>
LevelText == <<"{", "level", "}", " ", "{", "envr", "}", ": ", "{", "message", "}">>
EscapedText == <<"{", "{", "timestamp", "}", "}", " fixed">>
PaddedText == <<"{", "message", ":>20", "}">>
PlainText == <<"no placeholders">>
EmptyText == << >>

(* How str.format reads a well-formed text: {{ and }} are literal braces,
   {name} and {name:spec} are replacement fields (the padding a spec asks
   for is not modelled), everything else is literal *)
RECURSIVE parse_template(_)
parse_template(text) ==
    LET n == Len(text)
        from(i) == parse_template(SubSeq(text, i, n))
    IN  IF n = 0 THEN << >>
        ELSE IF text[1] = "{" /\ n >= 2 /\ text[2] = "{"
             THEN <<Lit("{")>> \o from(3)
        ELSE IF text[1] = "}" /\ n >= 2 /\ text[2] = "}"
             THEN <<Lit("}")>> \o from(3)
        ELSE IF text[1] = "{" /\ n >= 3 /\ text[3] = "}"
             THEN <<Field(text[2])>> \o from(4)
        ELSE IF text[1] = "{" /\ n >= 4 /\ text[4] = "}"
             THEN <<Field(text[2])>> \o from(5)
        ELSE <<Lit(text[1])>> \o from(2)

(* Faulty variant: the tag is compared as given *)
Lower_verbatim(s) == s

(* str.lower() on the environment tags in use *)
Lower(s) ==
    CASE s = "Dev"  -> "dev"
      [] s = "DEV"  -> "dev"
      [] s = "TEST" -> "test"
      [] OTHER      -> s

(* placeholder in format_string: the substring test *)
Contains(text, part) ==
    \E i \in 1..(Len(text) - Len(part) + 1) :
        SubSeq(text, i, i + Len(part) - 1) = part

required_placeholders ==
    { <<"{", "timestamp", "}">>, <<"{", "message", "}">>,
      <<"{", "level", "}">>, <<"{", "envr", "}">> }

(* Faulty variant: any replacement field makes the template valid *)
validate_format_string_any(format_string) ==
    Contains(format_string, <<"{">>) /\ Contains(format_string, <<"}">>)

(* _validate_format_string: TRUE when no ValueError is raised *)
validate_format_string(format_string) ==
    \E placeholder \in required_placeholders :
        Contains(format_string, placeholder)

(* The template __init__ keeps, as str.format reads it *)
chosen_config(e, cfg) ==
    IF cfg # NoConfig
    THEN parse_template(cfg.text)
    ELSE IF Lower(e) \in {"dev", "development", "test", "testing"}
         THEN DevTemplate
         ELSE DefaultTemplate

ConstructorArgs ==
    { [envr |-> "prod", config |-> NoConfig, custom |-> NoCustomValues],
      [envr |-> "prod", config |-> Given(ServiceText), custom |-> NoCustomValues],
      [envr |-> "prod", config |-> Given(CustomOnlyText), custom |-> ServiceValues] }

NoCall == [op |-> "__init__", level |-> "", message |-> << >>,
           cache_message |-> FALSE, table |-> ""]

(* The object __init__(a.envr, a.config, a.custom) leaves, in world w *)
Construct(a, w) ==
    LET valid == a.config = NoConfig \/ validate_format_string(a.config.text)
    IN  /\ args = a
        /\ envr = a.envr
        /\ constructed = IF valid THEN "ok" ELSE "ValueError"
        /\ config = chosen_config(a.envr, a.config)
        /\ custom_config_values = a.custom
        /\ caching = FALSE
        /\ cached_logs = << >>
        /\ job_run_id = Unset
        /\ uc_table_name = Unset
        /\ clock = 0
        /\ call = NoCall
        /\ raised = IF valid THEN NoError ELSE "ValueError"
        /\ printed = << >>
        /\ external = << >>
        /\ clock_reads = << >>
        /\ env = w
        /\ pending = << >>
        /\ last_ok = [table |-> Unset, job |-> Unset]

Init == \E a \in ConstructorArgs : Construct(a, World)

----------------------------------------------------------------------------
(* Rendering *)

(* datetime.now(self.timezone).strftime(self.timestamp_fmt) at tick t *)
strftime(t) == "T+" \o ToString(t) \o "s"

(* The keyword arguments handed to str.format *)
format_kwargs(timestamp, message, level) ==
    [k \in {"timestamp", "message", "level", "envr"} \cup DOMAIN custom_config_values |->
        CASE k = "timestamp" -> <<timestamp>>
          [] k = "message"   -> message
          [] k = "level"     -> <<level>>
          [] k = "envr"      -> <<envr>>
          [] OTHER           -> custom_config_values[k]]

(* Faulty variant: a replacement field without a value is left as written *)
RECURSIVE str_format_lenient(_, _)
str_format_lenient(template, kwargs) ==
    IF Len(template) = 0
    THEN [ok |-> TRUE, text |-> << >>]
    ELSE LET h == Head(template)
             rest == str_format_lenient(Tail(template), kwargs)
         IN  [ok |-> TRUE,
              text |-> (IF h.kind = "field" /\ h.text \in DOMAIN kwargs
                        THEN kwargs[h.text]
                        ELSE IF h.kind = "field"
                             THEN <<"{", h.text, "}">>
                             ELSE <<h.text>>) \o rest.text]

(* str.format: a replacement field without a value raises KeyError *)
RECURSIVE str_format(_, _)
str_format(template, kwargs) ==
    IF Len(template) = 0
    THEN [ok |-> TRUE, text |-> << >>]
    ELSE LET h == Head(template)
             rest == str_format(Tail(template), kwargs)
         IN  IF h.kind = "field" /\ h.text \notin DOMAIN kwargs
             THEN [ok |-> FALSE, text |-> << >>]
             ELSE IF ~rest.ok
                  THEN rest
                  ELSE [ok |-> TRUE,
                        text |-> (IF h.kind = "field" THEN kwargs[h.text]
                                  ELSE <<h.text>>) \o rest.text]

(* Faulty variant: the structured copy reads the clock again, later *)
log_entry_reread(job, timestamp, level, message) ==
    [job_run_id |-> job, timestamp |-> strftime(clock + 1), level |-> level,
     envr |-> envr, message |-> message]

(* The structured copy kept for persistence *)
log_entry(job, timestamp, level, message) ==
    [job_run_id |-> job, timestamp |-> timestamp, level |-> level,
     envr |-> envr, message |-> message]

(* self.cached_logs.append(log_entry) *)
append_log(logs, entry) == Append(logs, entry)

(* Faulty variant: the entry is recorded whenever the call asks for it *)
should_cache_unflagged(is_caching, cache_message) == cache_message

(* Whether _format_message records the entry *)
should_cache(is_caching, cache_message) == is_caching /\ cache_message

(* Faulty variant: the reset code is left out *)
colored_unreset(level, formatted) == COLORS(level) \o formatted

(* color + formatted + reset *)
colored(level, formatted) == COLORS(level) \o formatted \o COLORS("RESET")

(* _format_message, run at tick now on an object whose caching flag, buffer
   and job identifier are is_caching, logs and job.  The result holds the
   exception raised, the buffer afterwards and the string returned. *)
format_message(message, level, cache_message, is_caching, logs, job, now) ==
    LET timestamp == strftime(now)
        formatted == str_format(config, format_kwargs(timestamp, message, level))
    IN  IF ~formatted.ok
        THEN [raised |-> "KeyError", logs |-> logs, line |-> << >>,
              timestamp |-> timestamp]
        ELSE IF should_cache(is_caching, cache_message)
             THEN IF job = Unset
                  THEN [raised |-> "AttributeError", logs |-> logs,
                        line |-> << >>, timestamp |-> timestamp]
                  ELSE [raised |-> NoError,
                        logs |-> append_log(logs,
                                     log_entry(job, timestamp, level, message)),
                        line |-> colored(level, formatted.text),
                        timestamp |-> timestamp]
             ELSE [raised |-> NoError, logs |-> logs,
                   line |-> colored(level, formatted.text),
                   timestamp |-> timestamp]

(* What print() adds to the console for a line of the given level *)
Printed(level, message, line) ==
    [level |-> level, message |-> message, line |-> line]

----------------------------------------------------------------------------
(* The five emit operations *)

emit(op, level, message, cache_message) ==
    LET r == format_message(message, level, cache_message, caching,
                            cached_logs, job_run_id, clock)
    IN  /\ constructed = "ok"
        /\ Len(r.logs) <= MaxBuf
        /\ cached_logs' = r.logs
        /\ raised' = r.raised
        /\ printed' = IF r.raised = NoError
                      THEN <<Printed(level, message, r.line)>> ELSE << >>
        /\ call' = [op |-> op, level |-> level, message |-> message,
                    cache_message |-> cache_message, table |-> ""]
        /\ external' = << >>
        /\ clock_reads' = <<r.timestamp>>
        /\ pending' = IF caching /\ cache_message /\ r.raised = NoError
                      THEN Append(pending,
                                  [job_run_id |-> job_run_id,
                                   timestamp |-> strftime(clock),
                                   level |-> level, envr |-> envr,
                                   message |-> message])
                      ELSE pending
        /\ UNCHANGED <<config_vars, caching, job_run_id, uc_table_name, clock,
                       last_ok>>

info == \E m \in Messages, c \in BOOLEAN : emit("info", "INFO", m, c)
warning == \E m \in Messages, c \in BOOLEAN : emit("warning", "WARNING", m, c)
error == \E m \in Messages, c \in BOOLEAN : emit("error", "ERROR", m, c)
critical == \E m \in Messages, c \in BOOLEAN : emit("critical", "CRITICAL", m, c)
success == \E m \in Messages, c \in BOOLEAN : emit("success", "SUCCESS", m, c)

EmitOps == {"info", "warning", "error", "critical", "success"}

(* Time passes between calls; no call is in progress *)
Tick ==
    /\ clock + 1 \in Ticks
    /\ clock' = clock + 1
    /\ call' = [op |-> "tick", level |-> "", message |-> << >>,
                cache_message |-> FALSE, table |-> ""]
    /\ raised' = NoError
    /\ printed' = << >>
    /\ external' = << >>
    /\ clock_reads' = << >>
    /\ UNCHANGED <<config_vars, caching, cached_logs, job_run_id,
                   uc_table_name, pending, last_ok>>

----------------------------------------------------------------------------
(* External collaborators *)

External(fn, table, rows, result) ==
    [fn |-> fn, table |-> table, rows |-> rows, result |-> result]

(* Faulty variant: the existence check is skipped *)
tableExists_always(name) == TRUE

(* spark.catalog.tableExists(uc_table_name) *)
tableExists(name) == name \in env.catalog

RetrievingMsg == <<"Retrieving job run ID from Databricks notebook context.">>
FallbackMsg ==
    <<"Unable to retrieve job run ID via Databricks notebook context, trying job parameters.">>
NothingMsg == <<"No cached logs to persist.">>
PersistingMsg(n, table) ==
    <<"Persisting ", ToString(n), " cached log entries to table '", table, "'.">>
PersistedMsg == <<"Cached logs persisted successfully; flushing current cache.">>

----------------------------------------------------------------------------
(* init_caching *)

(* Faulty variant: the flag is not rolled back when the fallback finds nothing *)
caching_after_fallback_kept(widget) == TRUE

(* Faulty variant: the flag is dropped whatever the fallback answers *)
caching_after_fallback_dropped(widget) == FALSE

(* The caching flag once the fallback lookup answered *)
caching_after_fallback(widget) == widget # None

(* Faulty variant: init_caching starts from an empty buffer *)
logs_after_init_cleared(logs) == << >>

(* The buffer init_caching leaves behind: it does not assign cached_logs *)
logs_after_init(logs) == logs

(* Faulty variant: the name is recorded before the existence check *)
table_recorded_early(name, exists, old) == name

(* self.uc_table_name after the existence check *)
table_recorded(name, exists, old) == IF exists THEN name ELSE old

(* Faulty variant: the fallback is consulted whatever the context answered *)
lookup_failed_always(context) == TRUE

(* Whether the job-context lookup raised, so that the except clause runs *)
lookup_failed(context) == context = "raise"

(* Faulty variant: the WARNING and CRITICAL diagnostics ask to be cached *)
diagnostic_cache_message_set(level) == level \in {"WARNING", "CRITICAL"}

(* The cache_message argument of the diagnostics of init_caching and
   persist_cache at the given level: they pass none, so the default
   applies *)
diagnostic_cache_message(level) == FALSE

init_caching ==
    \E name \in env.names :
        LET checked == <<External("tableExists", name, << >>,
                                  IF tableExists(name) THEN "True" ELSE "False")>>
            r1 == format_message(RetrievingMsg, "INFO",
                                 diagnostic_cache_message("INFO"),
                                 TRUE, cached_logs, job_run_id, clock)
            r2 == format_message(FallbackMsg, "WARNING",
                                 diagnostic_cache_message("WARNING"),
                                 TRUE, r1.logs, job_run_id, clock)
            line1 == IF r1.raised = NoError
                     THEN <<Printed("INFO", RetrievingMsg, r1.line)>> ELSE << >>
        IN  /\ constructed = "ok"
            /\ call' = [op |-> "init_caching", level |-> "", message |-> << >>,
                        cache_message |-> FALSE, table |-> name]
            /\ UNCHANGED <<config_vars, clock, pending>>
            /\ uc_table_name' = table_recorded(name, tableExists(name), uc_table_name)
            /\ IF ~tableExists(name)
               THEN /\ raised' = "TableNotFound"
                    /\ external' = checked
                    /\ printed' = << >>
                    /\ clock_reads' = << >>
                    /\ UNCHANGED <<caching, cached_logs, job_run_id, last_ok>>
               ELSE IF r1.raised # NoError
                    THEN \* self.info raised inside try; self.warning
                         \* raises again inside the except clause
                         /\ caching' = TRUE
                         /\ job_run_id' = job_run_id
                         /\ cached_logs' = logs_after_init(r2.logs)
                         /\ raised' = r2.raised
                         /\ printed' = << >>
                         /\ external' = checked
                         /\ clock_reads' = <<r1.timestamp, r2.timestamp>>
                         /\ last_ok' = last_ok
                    ELSE \E context \in env.context :
                         LET asked == <<External("jobId", "", << >>, context)>>
                         IN  IF ~lookup_failed(context)
                             THEN /\ caching' = TRUE
                                  /\ job_run_id' = context
                                  /\ cached_logs' = logs_after_init(r1.logs)
                                  /\ raised' = NoError
                                  /\ printed' = line1
                                  /\ external' = checked \o asked
                                  /\ clock_reads' = <<r1.timestamp>>
                                  /\ last_ok' = [table |-> name, job |-> context]
                             ELSE \E widget \in env.widget :
                                  /\ caching' = caching_after_fallback(widget)
                                  /\ job_run_id' = widget
                                  /\ cached_logs' = logs_after_init(r2.logs)
                                  /\ raised' = IF widget = None
                                               THEN "JobIdentifierUnresolved"
                                               ELSE NoError
                                  /\ printed' = line1 \o
                                       <<Printed("WARNING", FallbackMsg, r2.line)>>
                                  /\ external' = checked \o asked \o
                                       <<External("widgets", "", << >>, widget)>>
                                  /\ clock_reads' = <<r1.timestamp, r2.timestamp>>
                                  /\ last_ok' = IF widget = None THEN last_ok
                                                ELSE [table |-> name, job |-> widget]

----------------------------------------------------------------------------
(* persist_cache *)

(* Faulty variant: the oldest entry is left out of the row set *)
rows_to_write_sliced(logs) == Tail(logs)

(* The rows handed to createDataFrame and saveAsTable *)
rows_to_write(logs) == logs

(* Faulty variant: the buffer is cleared whether or not the write went through *)
logs_after_write_cleared(logs, written) == << >>

(* The buffer after the write: cleared only when nothing was raised *)
logs_after_write(logs, written) == IF written THEN << >> ELSE logs

(* Faulty variant: persist_cache does not check the flag *)
caching_enabled_unchecked(flag) == TRUE

(* Whether persist_cache goes on past its first check *)
caching_enabled(flag) == flag

persist_cache ==
    \E written \in BOOLEAN :
        LET none == format_message(NothingMsg, "CRITICAL",
                                   diagnostic_cache_message("CRITICAL"), caching,
                                   cached_logs, job_run_id, clock)
            r1 == format_message(PersistingMsg(Len(cached_logs), uc_table_name),
                                 "INFO", diagnostic_cache_message("INFO"), caching,
                                 cached_logs, job_run_id, clock)
            r2 == format_message(PersistedMsg, "INFO",
                                 diagnostic_cache_message("INFO"),
                                 caching, r1.logs, job_run_id, clock)
            line1 == Printed("INFO",
                             PersistingMsg(Len(cached_logs), uc_table_name),
                             r1.line)
            write == External("saveAsTable", uc_table_name,
                              rows_to_write(r1.logs),
                              IF written THEN "ok" ELSE "raise")
        IN  /\ constructed = "ok"
            /\ call' = [op |-> "persist_cache", level |-> "", message |-> << >>,
                        cache_message |-> FALSE, table |-> ""]
            /\ UNCHANGED <<config_vars, caching, job_run_id, uc_table_name,
                           last_ok>>
            /\ IF ~caching_enabled(caching)
               THEN /\ raised' = "CachingNotInitialized"
                    /\ printed' = << >>
                    /\ external' = << >>
                    /\ clock_reads' = << >>
                    /\ UNCHANGED <<cached_logs, clock, pending>>
               ELSE IF Len(cached_logs) = 0
               THEN /\ raised' = none.raised
                    /\ printed' = IF none.raised = NoError
                                  THEN <<Printed("CRITICAL", NothingMsg, none.line)>>
                                  ELSE << >>
                    /\ external' = << >>
                    /\ clock_reads' = <<none.timestamp>>
                    /\ cached_logs' = none.logs
                    /\ UNCHANGED <<clock, pending>>
               ELSE IF r1.raised # NoError
               THEN /\ raised' = r1.raised
                    /\ printed' = << >>
                    /\ external' = << >>
                    /\ clock_reads' = <<r1.timestamp>>
                    /\ cached_logs' = r1.logs
                    /\ UNCHANGED <<clock, pending>>
               ELSE IF ~written
               THEN /\ raised' = "WriteError"
                    /\ printed' = <<line1>>
                    /\ external' = <<write>>
                    /\ clock_reads' = <<r1.timestamp>>
                    /\ cached_logs' = logs_after_write(r1.logs, FALSE)
                    /\ UNCHANGED <<clock, pending>>
               ELSE /\ raised' = r2.raised
                    /\ printed' = IF r2.raised = NoError
                                  THEN <<line1, Printed("INFO", PersistedMsg, r2.line)>>
                                  ELSE <<line1>>
                    /\ external' = <<write>>
                    /\ clock_reads' = <<r1.timestamp, r2.timestamp>>
                    /\ cached_logs' = logs_after_write(r2.logs, r2.raised = NoError)
                    /\ clock' = clock
                    /\ pending' = << >>

----------------------------------------------------------------------------

Next ==
    \/ info
    \/ warning
    \/ error
    \/ critical
    \/ success
    \/ init_caching
    \/ persist_cache
    \/ Tick

Spec == Init /\ [][Next]_vars

(* Construction and rendering over more constructor arguments, in a world
   whose catalog is empty, so that caching cannot be enabled *)
RenderWorld ==
    [catalog |-> {},
     names |-> {"catalog.schema.missing"},
     context |-> {"raise"},
     widget |-> {None}]

RenderArgs ==
    { [envr |-> "prod", config |-> NoConfig, custom |-> NoCustomValues],
      [envr |-> "prod", config |-> NoConfig, custom |-> ServiceValues],
      [envr |-> "dev", config |-> NoConfig, custom |-> NoCustomValues],
      [envr |-> "dev", config |-> NoConfig, custom |-> ServiceValues],
      [envr |-> "Dev", config |-> NoConfig, custom |-> NoCustomValues],
      [envr |-> "DEV", config |-> NoConfig, custom |-> NoCustomValues],
      [envr |-> "TEST", config |-> NoConfig, custom |-> NoCustomValues],
      [envr |-> "testing", config |-> NoConfig, custom |-> NoCustomValues],
      [envr |-> "development", config |-> NoConfig, custom |-> NoCustomValues],
      [envr |-> "staging", config |-> NoConfig, custom |-> ServiceValues],
      [envr |-> "dev", config |-> Given(ServiceText), custom |-> ServiceValues],
      [envr |-> "prod", config |-> Given(ServiceText), custom |-> NoCustomValues],
      [envr |-> "prod", config |-> Given(LevelText), custom |-> NoCustomValues],
      [envr |-> "prod", config |-> Given(EscapedText), custom |-> NoCustomValues],
      [envr |-> "prod", config |-> Given(CustomOnlyText), custom |-> ServiceValues],
      [envr |-> "prod", config |-> Given(PaddedText), custom |-> NoCustomValues],
      [envr |-> "prod", config |-> Given(PlainText), custom |-> NoCustomValues],
      [envr |-> "dev", config |-> Given(EmptyText), custom |-> NoCustomValues] }

InitRender == \E a \in RenderArgs : Construct(a, RenderWorld)

SpecRender == InitRender /\ [][Next]_vars

(* The state machine in a world with two existing tables and one job
   identifier, found by the job context only *)
TablesWorld ==
    [catalog |-> {"main.logs.job_logs", "main.logs.audit"},
     names |-> {"main.logs.job_logs", "main.logs.audit",
                "catalog.schema.missing"},
     context |-> {"run-1", "raise"},
     widget |-> {None}]

TablesArgs ==
    { [envr |-> "prod", config |-> NoConfig, custom |-> NoCustomValues],
      [envr |-> "prod", config |-> Given(ServiceText), custom |-> NoCustomValues] }

InitTables == \E a \in TablesArgs : Construct(a, TablesWorld)

SpecTables == InitTables /\ [][Next]_vars

----------------------------------------------------------------------------
(* Reading the record of the most recent call *)

IsEmit == call.op \in EmitOps
IsInit == call.op = "init_caching"
IsFlush == call.op = "persist_cache"

(* The level each emit operation logs at *)
LevelOf(op) ==
    CASE op = "info"     -> "INFO"
      [] op = "warning"  -> "WARNING"
      [] op = "error"    -> "ERROR"
      [] op = "critical" -> "CRITICAL"
      [] op = "success"  -> "SUCCESS"
      [] OTHER           -> ""

Calls(fn) == {i \in 1..Len(external) : external[i].fn = fn}
Wrote == Calls("saveAsTable") # {}
WrittenRows == external[CHOOSE i \in Calls("saveAsTable") : TRUE].rows
WriteFailed == \E i \in Calls("saveAsTable") : external[i].result = "raise"
PrimaryFailed == \E i \in Calls("jobId") : external[i].result = "raise"
FallbackEmpty == \E i \in Calls("widgets") : external[i].result = None

----------------------------------------------------------------------------
(* C1: round trip.  The buffer always holds exactly the entries that
   cache-requested emits made while enabled since the last successful
   write, in emission order; a flush that performs a write hands exactly
   those entries, in that order, to the external write; and the buffer is
   empty when that flush returns without error. *)
C1_RoundTrip ==
    /\ [](cached_logs = pending)
    /\ [][(IsFlush' /\ Wrote') =>
             /\ WrittenRows' = pending
             /\ (raised' = NoError => cached_logs' = << >>)]_vars

C1_Witness ==
    /\ IsFlush /\ Wrote /\ raised = NoError
    /\ Len(WrittenRows) = 2
    /\ WrittenRows[1] # WrittenRows[2]
    /\ cached_logs = << >>

(* C2: a flush in state Enabled with a non-empty buffer whose external
   write fails raises the error to the caller, leaves the buffer as it was
   and the controller Enabled; any flush that writes hands over the buffer
   as it stands, so the retained entries go to the next write. *)
C2_WriteFailureKeepsBuffer ==
    /\ [][(IsFlush' /\ caching /\ Len(cached_logs) > 0 /\ WriteFailed') =>
             /\ raised' = "WriteError"
             /\ cached_logs' = cached_logs
             /\ caching']_vars
    /\ [][(IsFlush' /\ Wrote') => WrittenRows' = cached_logs]_vars

C2_Witness ==
    /\ IsFlush /\ WriteFailed /\ raised = "WriteError"
    /\ caching
    /\ Len(cached_logs) = 2
    /\ WrittenRows = cached_logs

(* C3: a flush while Disabled raises CachingNotInitialized, makes no
   external call, prints nothing and leaves buffer and state unchanged. *)
C3_FlushWhileDisabled ==
    [][(IsFlush' /\ ~caching) =>
          /\ raised' = "CachingNotInitialized"
          /\ external' = << >>
          /\ printed' = << >>
          /\ cached_logs' = cached_logs
          /\ caching' = caching]_vars

(* reached after a failed re-initialization that left entries behind *)
C3_Witness ==
    /\ IsFlush /\ raised = "CachingNotInitialized"
    /\ ~caching
    /\ job_run_id = None
    /\ Len(cached_logs) > 0

(* C4: a flush in state Enabled with an empty buffer prints one CRITICAL
   line and returns without an external call, the buffer still empty and
   the state still Enabled. *)
C4_EmptyFlush ==
    [][(IsFlush' /\ caching /\ Len(cached_logs) = 0) =>
          /\ raised' = NoError
          /\ Len(printed') = 1
          /\ printed'[1].level = "CRITICAL"
          /\ external' = << >>
          /\ cached_logs' = << >>
          /\ caching']_vars

(* C5: an emit changes the buffer if and only if the controller is Enabled
   and the call asked for caching, and it then appends the one entry
   {job identifier, timestamp, level of the operation, environment tag,
   message} at the end. *)
C5_EmitAppendsIffEnabledAndRequested ==
    [][IsEmit' =>
          /\ (cached_logs' # cached_logs) <=> (caching /\ call'.cache_message)
          /\ (caching /\ call'.cache_message) =>
                cached_logs' =
                    Append(cached_logs,
                           [job_run_id |-> job_run_id,
                            timestamp |-> strftime(clock),
                            level |-> LevelOf(call'.op),
                            envr |-> envr,
                            message |-> call'.message])]_vars

(* C6: the buffer is empty whenever init_caching returns successfully. *)
C6_InitLeavesBufferEmpty ==
    (IsInit /\ raised = NoError) => cached_logs = << >>

(* C7: the controller goes from Disabled to Enabled only in an
   init_caching call that completes successfully; a failing init_caching,
   an emit or a flush leaves a Disabled controller Disabled. *)
C7_EnabledOnlyBySuccessfulInit ==
    [][(~caching /\ caching') => (IsInit' /\ raised' = NoError)]_vars

(* C8: the controller goes from Enabled to Disabled only in an
   init_caching call that fails because no job identifier was resolved;
   no emit and no flush disables it. *)
C8_DisabledOnlyByUnresolvedInit ==
    [][(caching /\ ~caching') =>
          (IsInit' /\ raised' = "JobIdentifierUnresolved")]_vars

(* an Enabled controller with buffered entries was rolled back *)
C8_Witness ==
    /\ IsInit /\ raised = "JobIdentifierUnresolved"
    /\ ~caching
    /\ Len(cached_logs) > 0

(* C9: init_caching on a table that does not exist raises TableNotFound,
   leaves state, table name, job identifier and buffer unchanged, asks
   for no job identifier and prints nothing. *)
C9_TableNotFound ==
    [][(IsInit' /\ call'.table \notin env.catalog) =>
          /\ raised' = "TableNotFound"
          /\ caching' = caching
          /\ uc_table_name' = uc_table_name
          /\ job_run_id' = job_run_id
          /\ cached_logs' = cached_logs
          /\ \A i \in 1..Len(external') : external'[i].fn = "tableExists"
          /\ printed' = << >>]_vars

(* the call left an Enabled controller with its entries as they were *)
C9_Witness ==
    /\ IsInit /\ raised = "TableNotFound"
    /\ caching
    /\ uc_table_name \in env.catalog
    /\ Len(cached_logs) > 0

(* C10: when init_caching found the table, the job-context lookup failed
   and the job_id widget held no value, the call raises
   JobIdentifierUnresolved and the controller is Disabled on return. *)
C10_UnresolvedDisables ==
    (IsInit /\ PrimaryFailed /\ FallbackEmpty) =>
        (raised = "JobIdentifierUnresolved" /\ ~caching)

(* the controller was Enabled before: its entries are still buffered *)
C10_Witness ==
    /\ IsInit /\ PrimaryFailed /\ FallbackEmpty
    /\ uc_table_name \in env.catalog
    /\ Len(cached_logs) > 0
    /\ ~caching

(* C11: in init_caching the table existence check comes first, then the
   job-context lookup, and the job_id widget is consulted if and only if
   the job-context lookup failed; when the job context answers, its value
   is the recorded job identifier, and when only the widget holds a value,
   that value is recorded and the controller is Enabled. *)
C11_LookupOrder ==
    IsInit =>
        /\ Len(external) >= 1
        /\ Calls("tableExists") = {1}
        /\ Calls("jobId") \subseteq {2}
        /\ Calls("widgets") \subseteq {3}
        /\ (Calls("widgets") # {}) <=> PrimaryFailed
        /\ (Calls("jobId") # {} /\ ~PrimaryFailed) =>
               /\ job_run_id = external[2].result
               /\ raised = NoError
        /\ (Calls("widgets") # {} /\ ~FallbackEmpty) =>
               /\ job_run_id = external[3].result
               /\ caching
               /\ raised = NoError

(* the job context failed and the widget answered *)
C11_Witness ==
    /\ IsInit /\ PrimaryFailed /\ ~FallbackEmpty
    /\ Len(external) = 3
    /\ job_run_id = "run-2"
    /\ caching

(* C12: an emit whose template references a placeholder that is neither
   timestamp, message, level, envr nor a key of the custom values raises
   the format error to the caller; nothing is printed, nothing is appended
   to the buffer even when the controller is Enabled and caching was
   requested, and the controller state is unchanged. *)
C12_FormatErrorConfined ==
    [][(IsEmit' /\ \E i \in 1..Len(config) :
                      /\ config[i].kind = "field"
                      /\ config[i].text \notin
                             {"timestamp", "message", "level", "envr"}
                                 \cup DOMAIN custom_config_values) =>
          /\ raised' = "KeyError"
          /\ printed' = << >>
          /\ cached_logs' = cached_logs
          /\ caching' = caching
          /\ job_run_id' = job_run_id
          /\ uc_table_name' = uc_table_name]_vars

(* the controller was Enabled and the call asked for caching *)
C12_Witness ==
    /\ IsEmit /\ raised = "KeyError"
    /\ caching
    /\ call.cache_message
    /\ printed = << >>
    /\ cached_logs = << >>

(* C16: the diagnostic lines that init_caching and persist_cache emit
   themselves are never appended to the buffer, although the controller is
   already marked Enabled while they are emitted: no init_caching call and
   no persist_cache call adds an entry to the buffer. *)
C16_DiagnosticsNotCached ==
    [][(IsInit' \/ IsFlush') =>
          /\ Len(cached_logs') <= Len(cached_logs)
          /\ \A i \in 1..Len(cached_logs') :
                 cached_logs'[i].message \in Messages
          /\ (printed' # << >>) => cached_logs' \in {cached_logs, << >>}]_vars

(* a re-initialization printed both diagnostics beside buffered entries *)
C16_Witness ==
    /\ IsInit /\ caching
    /\ Len(printed) = 2
    /\ printed[1].message = RetrievingMsg
    /\ printed[2].message = FallbackMsg
    /\ Len(cached_logs) > 0

(* The timestamps that appear in a rendered line *)
TimestampsIn(line) ==
    {line[i] : i \in {j \in 1..Len(line) :
                         line[j] \in {strftime(t) :
                                        t \in Ticks \cup {u + 1 : u \in Ticks}}}}

(* C17: every emit call reads the clock exactly once, and the timestamp
   stored in the cached entry of a cache-requested emit is the same value
   as the timestamp substituted into the line displayed by that call. *)
C17_OneClockRead ==
    [][IsEmit' =>
          /\ Len(clock_reads') = 1
          /\ clock_reads'[1] = strftime(clock)
          /\ (printed' # << >>) =>
                 /\ TimestampsIn(printed'[1].line) \subseteq {clock_reads'[1]}
                 /\ (cached_logs' # cached_logs) =>
                        cached_logs'[Len(cached_logs')].timestamp
                            = clock_reads'[1]]_vars

(* an entry recorded after time had passed, beside an earlier one *)
C17_Witness ==
    /\ IsEmit /\ call.cache_message /\ caching
    /\ Len(cached_logs) = 2
    /\ cached_logs[1].timestamp = strftime(0)
    /\ cached_logs[2].timestamp = strftime(1)
    /\ Len(printed) = 1
    /\ TimestampsIn(printed[1].line) = {strftime(1)}

(* C18: no buffered entry is ever lost.  Across any sequence of emit,
   init_caching (successful, failed, or repeated while Enabled) and
   persist_cache calls, the buffer changes only by the append of one entry
   at its end, made by an emit, or by being emptied by a persist_cache
   whose external write succeeded and was handed the whole buffer. *)
C18_NoEntryLost ==
    [][\/ cached_logs' = cached_logs
       \/ /\ IsEmit'
          /\ Len(cached_logs') = Len(cached_logs) + 1
          /\ SubSeq(cached_logs', 1, Len(cached_logs)) = cached_logs
       \/ /\ IsFlush' /\ Wrote' /\ ~WriteFailed'
          /\ WrittenRows' = cached_logs
          /\ cached_logs' = << >>]_vars

(* a second initialization, successful, kept the buffered entries *)
C18_Witness ==
    /\ IsInit /\ raised = NoError
    /\ job_run_id = "run-2"
    /\ Len(cached_logs) = 2
    /\ cached_logs[1].job_run_id = "run-1"

(* C19: every entry in the buffer, and so every row passed to the external
   write, carries a resolved job run identifier: the one recorded by the
   most recent successful init_caching before the emit that created the
   entry; an emit never appends an entry while the recorded job identifier
   is missing or null. *)
C19_EntriesCarryResolvedJob ==
    /\ [](\A i \in 1..Len(cached_logs) :
              cached_logs[i].job_run_id \notin {Unset, None})
    /\ [](Wrote => \A i \in 1..Len(WrittenRows) :
                       WrittenRows[i].job_run_id \notin {Unset, None})
    /\ [][(IsEmit' /\ cached_logs' # cached_logs) =>
             /\ job_run_id \notin {Unset, None}
             /\ job_run_id = last_ok.job
             /\ cached_logs'[Len(cached_logs')].job_run_id = last_ok.job]_vars

(* entries of two successful initializations side by side *)
C19_Witness ==
    /\ IsEmit /\ call.cache_message /\ raised = NoError
    /\ Len(cached_logs) = 2
    /\ cached_logs[1].job_run_id = "run-1"
    /\ cached_logs[2].job_run_id = "run-2"
    /\ last_ok.job = "run-2"

(* C20: every external write performed by persist_cache targets the table
   name passed to the most recent init_caching call that succeeded, and
   that table was confirmed to exist by that call; a table name passed to
   an init_caching call that failed is not the target unless that same
   name was passed to the most recent successful call; each persist_cache
   performs at most one external write. *)
C20_WriteTargetsInitializedTable ==
    /\ [](IsFlush =>
            /\ Cardinality(Calls("saveAsTable")) <= 1
            /\ \A i \in Calls("saveAsTable") :
                   /\ external[i].table = last_ok.table
                   /\ external[i].table \in env.catalog)
    /\ [][(IsInit' /\ raised' = NoError) =>
             /\ Calls("tableExists")' # {}
             /\ \A i \in Calls("tableExists")' :
                    /\ external'[i].table = call'.table
                    /\ external'[i].result = "True"
             /\ last_ok'.table = call'.table]_vars
    /\ [][(IsInit' /\ raised' # NoError) => last_ok' = last_ok]_vars

(* a write of two rows to the second of the two existing tables *)
C20_Witness ==
    /\ IsFlush /\ Wrote /\ ~WriteFailed
    /\ WrittenRows # << >>
    /\ external[1].table = "main.logs.audit"
    /\ last_ok.table = "main.logs.audit"
    /\ Len(WrittenRows) = 2

(* The four tokens, looked for in the text of a template piece by piece *)
HasRecognizedToken(text) ==
    \E i \in 1..(Len(text) - 2) :
        /\ text[i] = "{"
        /\ text[i + 1] \in {"timestamp", "message", "level", "envr"}
        /\ text[i + 2] = "}"

(* C13: for every template given to the constructor, construction fails
   with ValueError if the template contains none of the four tokens
   {timestamp}, {message}, {level}, {envr} as a substring and succeeds if
   it contains at least one of them; when no template is given, nothing
   is validated and a default template is used. *)
C13_TemplateValidation ==
    /\ args.config.given =>
           /\ HasRecognizedToken(args.config.text) => constructed = "ok"
           /\ ~HasRecognizedToken(args.config.text) =>
                  constructed = "ValueError"
           /\ constructed = "ok" => config = parse_template(args.config.text)
    /\ ~args.config.given =>
           /\ constructed = "ok"
           /\ config \in {DevTemplate, DefaultTemplate}

(* a template whose only replacement field is not one of the four *)
C13_Witness ==
    /\ args.config = Given(CustomOnlyText)
    /\ args.custom = ServiceValues
    /\ constructed = "ValueError"
    /\ raised = "ValueError"

(* The substituted template of the most recent emit *)
Substituted ==
    str_format(config,
               format_kwargs(clock_reads[1], call.message, LevelOf(call.op))).text

(* C14: for each of the five levels the string rendered by the level's emit
   operation is decoration(level) + substituted template + reset code,
   where the decoration is empty for INFO and a distinct non-empty code for
   each of the other four levels; a level outside the five gets the empty
   decoration instead of failing. *)
C14_Decoration ==
    /\ (IsEmit /\ raised = NoError) =>
           /\ Len(printed) = 1
           /\ printed[1].level = LevelOf(call.op)
           /\ printed[1].line =
                  COLORS(LevelOf(call.op)) \o Substituted \o <<"ESC[0m">>
           /\ \A other \in {"DEBUG", "TRACE", "info"} :
                  colored(other, Substituted) = Substituted \o <<"ESC[0m">>
    /\ COLORS("INFO") = << >>
    /\ \A a, b \in Levels \ {"INFO"} :
           /\ COLORS(a) # << >>
           /\ a # b => COLORS(a) # COLORS(b)
    /\ \A a \in Levels : COLORS(a) # <<"ESC[0m">>

(* a decorated line whose body holds a literal brace pair *)
C14_Witness ==
    /\ call.op = "critical" /\ raised = NoError
    /\ args.config = Given(EscapedText)
    /\ printed[1].line =
           <<"ESC[35m", "{", "timestamp", "}", " fixed", "ESC[0m">>

(* The spellings of the development and test tags among the inputs *)
DevTags == {"dev", "Dev", "DEV", "development", "test", "TEST", "testing"}

(* C15: when no template is given, the default template is chosen from the
   environment tag without regard to letter case: dev, development, test
   or testing select the default that contains the envr placeholder, every
   other tag selects the default without it; the choice depends on no
   other constructor argument. *)
C15_DefaultTemplateByTag ==
    /\ ~args.config.given =>
           /\ args.envr \in DevTags =>
                  /\ config = DevTemplate
                  /\ \E i \in 1..Len(config) : config[i] = Field("envr")
           /\ args.envr \notin DevTags =>
                  /\ config = DefaultTemplate
                  /\ \A i \in 1..Len(config) : config[i] # Field("envr")
    /\ \A a, b \in RenderArgs :
           (~a.config.given /\ ~b.config.given /\ a.envr = b.envr) =>
               chosen_config(a.envr, a.config) = chosen_config(b.envr, b.config)

(* an upper-case tag selected the development default, and the tag is
   printed as it was given *)
C15_Witness ==
    /\ ~args.config.given /\ args.envr = "DEV"
    /\ config = DevTemplate
    /\ IsEmit /\ raised = NoError
    /\ \E i \in 1..Len(printed[1].line) : printed[1].line[i] = "DEV"

====
